---- MODULE Spec2Model ----
\* A model of xptlib.h (xpt::File, the SAS XPORT v5 reader): the header
\* validator, the variable descriptor parser, the IBM->IEEE754 codec and
\* the two row decoders, written from the code of src/xptlib.h.
EXTENDS Integers, Sequences, FiniteSets, TLC

\* ---------------------------------------------------------------- bounds

\* Largest variable count a well-formed input file of the model declares.
MaxVars == 2
\* Largest number of complete rows in the data region of an input file.
MaxRows == 2

\* ------------------------------------------------------- 64-bit machine words
\* A uint64_t is the sequence of its eight bytes in the memory order of the
\* little-endian host (index 1 = least significant byte); every operation
\* is taken modulo 2^64 as on the machine.

ByteIdx == 1..8

RECURSIVE Pow2(_)
Pow2(n) == IF n = 0 THEN 1 ELSE 2 * Pow2(n - 1)

\* Bit j of a byte, and bit position p (0 = least significant) of a word.
ByteBit(b, j) == (b \div Pow2(j)) % 2
Bit(w, p) == ByteBit(w[(p \div 8) + 1], p % 8)

\* x & y on bytes, bit by bit (decided at once when a byte is 0 or 0xff).
RECURSIVE AndBits(_, _, _)
AndBits(x, y, n) ==
  IF n = 0 THEN 0 ELSE (x % 2) * (y % 2) + 2 * AndBits(x \div 2, y \div 2, n - 1)
AndByte(x, y) ==
  IF x = 0 \/ y = 0 THEN 0
  ELSE IF x = 255 THEN y
  ELSE IF y = 255 THEN x
  ELSE AndBits(x, y, 8)

\* Byte k of a word, 0 outside it (what a shift brings in).
ByteAt(w, k) == IF k >= 1 /\ k <= 8 THEN w[k] ELSE 0

BitAnd(a, b) == SubSeq([k \in ByteIdx |-> AndByte(a[k], b[k])], 1, 8)
BitOr(a, b) == SubSeq([k \in ByteIdx |-> a[k] + b[k] - AndByte(a[k], b[k])], 1, 8)
BitNot(a) == SubSeq([k \in ByteIdx |-> 255 - a[k]], 1, 8)
\* a >> n and a << n for 0 <= n < 64.
ShiftRight(a, n) ==
  SubSeq([k \in ByteIdx |->
            (ByteAt(a, k + (n \div 8)) \div Pow2(n % 8))
              + (ByteAt(a, k + (n \div 8) + 1) % Pow2(n % 8)) * Pow2(8 - (n % 8))], 1, 8)
ShiftLeft(a, n) ==
  SubSeq([k \in ByteIdx |->
            ((ByteAt(a, k - (n \div 8)) * Pow2(n % 8)) % 256)
              + (ByteAt(a, k - (n \div 8) - 1) \div Pow2(8 - (n % 8)))], 1, 8)

\* The bytes of a sum from the bytewise sums s, from byte k on, with the
\* carry into it.
RECURSIVE Ripple(_, _, _)
Ripple(s, k, carry) ==
  IF k > 8 THEN <<>>
  ELSE IF s[k] + carry >= 256
    THEN <<(s[k] + carry) % 256>> \o Ripple(s, k + 1, 1)
    ELSE <<(s[k] + carry) % 256>> \o Ripple(s, k + 1, 0)

\* a + b modulo 2^64 (the carry out of the top byte is dropped).
WordAdd(a, b) == Ripple(SubSeq([k \in ByteIdx |-> a[k] + b[k]], 1, 8), 1, 0)
\* a - b modulo 2^64 (two's complement).
WordSub(a, b) == WordAdd(WordAdd(a, BitNot(b)), <<1, 0, 0, 0, 0, 0, 0, 0>>)

\* The uint64_t holding the small literal n (65ULL, 1023ULL, ...).
Word(n) == <<n % 256, (n \div 256) % 256, (n \div 65536) % 256, 0, 0, 0, 0, 0>>

\* A mask literal with exactly the bits lo..hi set.
MaskBits(lo, hi) ==
  SubSeq([k \in ByteIdx |->
            LET l == IF lo > 8 * (k - 1) THEN lo ELSE 8 * (k - 1)
                h == IF hi < 8 * k - 1 THEN hi ELSE 8 * k - 1
            IN IF l > h THEN 0 ELSE (Pow2(h - l + 1) - 1) * Pow2(l - 8 * (k - 1))], 1, 8)

ZeroWord == <<0, 0, 0, 0, 0, 0, 0, 0>>

\* The memory a row decoder reads through buf.begin() + offset: the bytes of
\* the buffer, then (past its end, where the read is undefined behaviour)
\* whatever the heap holds, here the byte `beyond`.
MemByte(buf, beyond, offset) ==
  IF offset < Len(buf) THEN buf[offset + 1] ELSE beyond

\* Get_From_Buffer<uint64_t>: the eight bytes at offset..offset+7 copied
\* over the uint64_t.
Get_From_Buffer_U64(buf, beyond, offset) ==
  SubSeq([k \in ByteIdx |-> MemByte(buf, beyond, offset + k - 1)], 1, 8)

\* To_Machine_Endian_Raw<uint64_t> on a little-endian host: the bytes reversed.
To_Machine_Endian_Raw64(w) == SubSeq([k \in ByteIdx |-> w[9 - k]], 1, 8)

\* A variant that shifts by the count of leading zero bits instead.
IbmShift_Inverted(in) ==
  IF BitAnd(in, MaskBits(55, 55)) # ZeroWord THEN 0
  ELSE IF BitAnd(in, MaskBits(54, 54)) # ZeroWord THEN 1
  ELSE IF BitAnd(in, MaskBits(53, 53)) # ZeroWord THEN 2
  ELSE 3

\* The normalisation shift of IbmToIEEE, chosen from the top mantissa nibble.
IbmShift(in) ==
  IF BitAnd(in, MaskBits(55, 55)) # ZeroWord THEN 3
  ELSE IF BitAnd(in, MaskBits(54, 54)) # ZeroWord THEN 2
  ELSE IF BitAnd(in, MaskBits(53, 53)) # ZeroWord THEN 1
  ELSE 0

\* internal::IbmToIEEE: the bits of the double returned for the raw value.
IbmToIEEE(raw) ==
  LET in == To_Machine_Endian_Raw64(raw)
      sign == BitAnd(in, MaskBits(63, 63))
      exponent0 == ShiftRight(BitAnd(in, MaskBits(56, 62)), 56)
      mantissa0 == BitAnd(in, MaskBits(0, 55))
      shift == IbmShift(in)
      mantissa1 == ShiftRight(mantissa0, shift)
      mantissa == BitAnd(mantissa1, BitNot(MaskBits(52, 52)))
      exponent1 == WordSub(exponent0, Word(65))
      exponent2 == ShiftLeft(exponent1, 2)
      exponent == WordAdd(WordAdd(exponent2, Word(shift)), Word(1023))
  IN BitOr(BitOr(sign, ShiftLeft(exponent, 52)), mantissa)

\* The bit pattern of a double, as its eight bytes, most significant first.
DoubleBytes(w) == SubSeq([k \in ByteIdx |-> w[9 - k]], 1, 8)

\* ------------------------------------------------------------ header records

Header_Signature_Library == "LIBRARY HEADER RECORD"
Header_Signature_Member == "MEMBER  HEADER RECORD"
Header_Signature_Descriptor == "DSCRPTR HEADER RECORD"
Header_Signature_Namestr == "NAMESTR HEADER RECORD"
Header_Signature_Observation == "OBS     HEADER RECORD"

Signature_Map ==
  (Header_Signature_Library :> "Library") @@
  (Header_Signature_Member :> "Member") @@
  (Header_Signature_Descriptor :> "Descriptor") @@
  (Header_Signature_Namestr :> "Namestr") @@
  (Header_Signature_Observation :> "Observation")

\* A variant that takes an unknown signature for the Library one.
Recognize_Data_Header_Lenient(gen) ==
  IF gen.namedesc \in DOMAIN Signature_Map THEN Signature_Map[gen.namedesc]
  ELSE "Library"

\* File::Recognize_Data_Header: the 21 bytes of namedesc looked up as they are.
Recognize_Data_Header(gen) ==
  IF gen.namedesc \in DOMAIN Signature_Map THEN Signature_Map[gen.namedesc]
  ELSE "None"

\* sizeof of the packed records, from their field widths.
SizeOf(T) ==
  CASE T = "Data_Header_Generic" -> 13 + 7 + 21 + 7 + 5 + 5 + 5 + 5 + 5 + 5
    [] T = "Date_Time_Record" -> 2 + 3 + 2 + 1 + 2 + 1 + 2 + 1 + 2
    [] T = "File_Header_Record" -> 16 + 8 + 8 + 8 + 24 + 16
    [] T = "Member_Header_Record" -> 8 + 8 + 8 + 8 + 8 + 24 + 16
    [] T = "Member_Header_Record_2" -> 16 + 16 + 40 + 8
    [] T = "Namestr_Record_1" -> 2 + 2 + 2 + 2 + 8 + 40 + 8 + 2 + 2 + 2 + 2 + 8
    [] T = "Namestr_Record_2" -> 2 + 2 + 4 + 52

\* bytes_to_read of File::Read<T, padded>.
Bytes_To_Read(T, padded) == IF padded THEN 80 ELSE SizeOf(T)

\* To_Machine_Endian_Raw on an integral field, held as its bytes in memory
\* order: bit_cast to a byte array, reverse, bit_cast back.
RECURSIVE Reverse(_)
Reverse(s) == IF s = <<>> THEN <<>> ELSE Reverse(Tail(s)) \o <<Head(s)>>

To_Machine_Endian_Raw(rep) == Reverse(rep)

\* static_cast<size_t> of an unsigned field of the little-endian host.
RECURSIVE HostValue(_)
HostValue(rep) == IF rep = <<>> THEN 0 ELSE Head(rep) + 256 * HostValue(Tail(rep))

\* std::stoull(std::string{hdr.num2, 5}): white space skipped, an optional
\* plus sign, then decimal digits up to the first other character;
\* std::invalid_argument when there is no digit. (No modelled count field
\* carries a minus sign.)
IsDigit(c) == c \in {"0", "1", "2", "3", "4", "5", "6", "7", "8", "9"}
DigitValue(c) ==
  CASE c = "0" -> 0 [] c = "1" -> 1 [] c = "2" -> 2 [] c = "3" -> 3 [] c = "4" -> 4
    [] c = "5" -> 5 [] c = "6" -> 6 [] c = "7" -> 7 [] c = "8" -> 8 [] c = "9" -> 9

RECURSIVE SkipSpace(_)
SkipSpace(s) == IF s # <<>> /\ Head(s) = " " THEN SkipSpace(Tail(s)) ELSE s

RECURSIVE ParseDigits(_, _)
ParseDigits(s, acc) ==
  IF s # <<>> /\ IsDigit(Head(s)) THEN ParseDigits(Tail(s), 10 * acc + DigitValue(Head(s)))
  ELSE acc

Stoull(text) ==
  LET a == SkipSpace(text)
      b == IF a # <<>> /\ Head(a) = "+" THEN Tail(a) ELSE a
  IN IF b # <<>> /\ IsDigit(Head(b))
       THEN [ok |-> TRUE, value |-> ParseDigits(b, 0)]
       ELSE [ok |-> FALSE, value |-> 0]

\* ------------------------------------------------------------- input files
\* An input stream is given by what it holds at the places the reader looks:
\* eight 80-byte blocks (offsets 0..639), the 140-byte namestr pairs that
\* follow, the 80-byte block at the next 80-byte boundary, the bytes after
\* that block (nrows complete rows, then blanks), and its length in bytes
\* (a truncated stream is shorter than its parts).

Min(a, b) == IF a < b THEN a ELSE b
Max(a, b) == IF a > b THEN a ELSE b

RECURSIVE Fill(_, _)
Fill(n, b) == IF n <= 0 THEN <<>> ELSE <<b>> \o Fill(n - 1, b)

Take(s, n) == SubSeq(s, 1, Min(n, Len(s)))

BE16(v) == <<(v \div 256) % 256, v % 256>>
BE32(v) == <<(v \div 16777216) % 256, (v \div 65536) % 256, (v \div 256) % 256, v % 256>>

CountText(n) == <<"0", "0", "0", "0">> \o
  <<CASE n = 0 -> "0" [] n = 1 -> "1" [] n = 2 -> "2" [] n = 3 -> "3" [] n = 4 -> "4"
      [] n = 5 -> "5" [] n = 6 -> "6" [] n = 7 -> "7" [] n = 8 -> "8" [] n = 9 -> "9">>

Blanks5 == <<" ", " ", " ", " ", " ">>
HeaderBlock(sig, num2) == [namedesc |-> sig, num2 |-> num2]
\* A descriptive sub-record (SAS/SASLIB/version/OS/dates): no signature.
MetaBlock == [namedesc |-> "B     9.4     X64_10P", num2 |-> Blanks5]
\* What an 80-byte read finds inside the namestr or data region.
OtherBlock == [namedesc |-> "                     ", num2 |-> Blanks5]

GoodBlocks(num2) ==
  << HeaderBlock(Header_Signature_Library, CountText(0)), MetaBlock, MetaBlock,
     HeaderBlock(Header_Signature_Member, CountText(0)),
     HeaderBlock(Header_Signature_Descriptor, CountText(0)), MetaBlock, MetaBlock,
     HeaderBlock(Header_Signature_Namestr, num2) >>
ObsBlock == HeaderBlock(Header_Signature_Observation, CountText(0))

\* The columns an input file declares: type code, value length, and how far
\* the declared offset lies from the sum of the lengths before it.
ColKinds ==
  { [ntype |-> 1, nlng |-> 8, skew |-> 0],
    [ntype |-> 2, nlng |-> 4, skew |-> 0],
    [ntype |-> 1, nlng |-> 4, skew |-> 0],
    [ntype |-> 3, nlng |-> 4, skew |-> 0] }

RECURSIVE SeqsUpTo(_, _)
SeqsUpTo(S, n) ==
  IF n = 0 THEN { <<>> }
  ELSE LET shorter == SeqsUpTo(S, n - 1)
       IN shorter \cup { Append(t, x) : t \in {u \in shorter : Len(u) = n - 1}, x \in S }

RECURSIVE SumLng(_)
SumLng(cols) == IF cols = <<>> THEN 0 ELSE Head(cols).nlng + SumLng(Tail(cols))

\* The namestr pairs of the columns, fields big-endian as in the file.
RawNamestrs(cols) ==
  [k \in 1..Len(cols) |->
     [ntype |-> BE16(cols[k].ntype), nlng |-> BE16(cols[k].nlng), nvar0 |-> BE16(k),
      npos |-> BE32(SumLng(SubSeq(cols, 1, k - 1)) + cols[k].skew)]]

\* Field contents of row r, column c: the IBM doubles 1.0, 100.5 and zero
\* (negated in the even columns) in a numeric field; "A".."D" then "B",
\* "42.5".."72.5", and NULs in the others; each cut or blank-padded to the
\* declared length.
IbmFixture(p, c) ==
  CASE p = 1 -> <<65 + 128 * ((c - 1) % 2), 16, 0, 0, 0, 0, 0, 0>>
    [] p = 2 -> <<66 + 128 * ((c - 1) % 2), 100, 128, 0, 0, 0, 0, 0>>
    [] OTHER -> <<0, 0, 0, 0, 0, 0, 0, 0>>
TextFixture(p, c, n) ==
  CASE p = 1 -> Take(<<65 + ((c - 1) % 4), 66>> \o Fill(n, 32), n)
    [] p = 2 -> Take(<<52 + ((c - 1) % 4), 50, 46, 53>> \o Fill(n, 32), n)
    [] OTHER -> Fill(n, 0)
FieldBytes(col, r, c) ==
  LET p == ((r - 1) % 3) + 1
  IN IF col.ntype = 1 THEN Take(IbmFixture(p, c), col.nlng) ELSE TextFixture(p, c, col.nlng)

RowBytes(cols, r) ==
  LET RECURSIVE From(_)
      From(c) == IF c > Len(cols) THEN <<>> ELSE FieldBytes(cols[c], r, c) \o From(c + 1)
  IN From(1)

RECURSIVE RowsBytes(_, _, _)
RowsBytes(cols, r, k) ==
  IF r > k THEN <<>> ELSE RowBytes(cols, r) \o RowsBytes(cols, r + 1, k)

\* The blanks that pad n bytes to the next 80-byte boundary.
PadTo80(n) == (80 - (n % 80)) % 80

\* k rows of the columns, padded with blanks to an 80-byte boundary.
DataRegion(cols, k) ==
  LET rows == RowsBytes(cols, 1, k) IN rows \o Fill(PadTo80(Len(rows)), 32)

ObsOffsetOf(n) == 640 + 140 * n + PadTo80(140 * n)

MakeFile(blocks, cols, obs, k) ==
  [blocks |-> blocks, namestrs |-> RawNamestrs(cols), obs |-> obs,
   data |-> DataRegion(cols, k), nrows |-> k,
   len |-> ObsOffsetOf(Len(cols)) + 80 + Len(DataRegion(cols, k))]

\* Well-formed headers over every column table and row count of the bounds.
PlainFiles ==
  { MakeFile(GoodBlocks(CountText(Len(cols))), cols, ObsBlock, k) :
      cols \in SeqsUpTo(ColKinds, MaxVars), k \in 0..MaxRows }

SampleCols == << [ntype |-> 1, nlng |-> 8, skew |-> 0], [ntype |-> 2, nlng |-> 4, skew |-> 0] >>
WideCols == [k \in 1..4 |-> [ntype |-> 2, nlng |-> 4, skew |-> 0]]
SampleFile == MakeFile(GoodBlocks(CountText(2)), SampleCols, ObsBlock, 1)

\* Four columns: 560 descriptor bytes, already on an 80-byte boundary.
WideFiles == { MakeFile(GoodBlocks(CountText(4)), WideCols, ObsBlock, 1) }

\* Rows longer than the blanks that pad them, a declared offset past the
\* end of the row, and columns of length 0.
OddTables ==
  { << [ntype |-> 2, nlng |-> 40, skew |-> 0] >>,
    << [ntype |-> 2, nlng |-> 40, skew |-> 0], [ntype |-> 1, nlng |-> 8, skew |-> 0] >>,
    << [ntype |-> 1, nlng |-> 8, skew |-> 0], [ntype |-> 2, nlng |-> 4, skew |-> 4] >>,
    << [ntype |-> 2, nlng |-> 0, skew |-> 0] >> }
OddFiles ==
  { MakeFile(GoodBlocks(CountText(Len(cols))), cols, ObsBlock, k) :
      cols \in OddTables, k \in 1..MaxRows }

\* One checked block carries another text in its signature field.
WrongSignatures ==
  DOMAIN Signature_Map \cup
    { "MEMBER HEADER RECORD ", "library header record", MetaBlock.namedesc }
CheckedBlocks == {1, 4, 5, 8}
BadSignatureFiles ==
  { [SampleFile EXCEPT !.blocks[b].namedesc = w] :
      b \in CheckedBlocks, w \in WrongSignatures }
  \cup { [SampleFile EXCEPT !.obs.namedesc = w] : w \in WrongSignatures }

\* The layout with a single descriptive record after the Library header.
ShortLibraryFiles ==
  { [SampleFile EXCEPT !.blocks =
       << HeaderBlock(Header_Signature_Library, CountText(0)), MetaBlock,
          HeaderBlock(Header_Signature_Member, CountText(0)),
          HeaderBlock(Header_Signature_Descriptor, CountText(0)), MetaBlock, MetaBlock,
          HeaderBlock(Header_Signature_Namestr, CountText(2)), OtherBlock >>] }

\* Other spellings of the count field, and counts that differ from the
\* number of namestr pairs present (a larger count only on a stream that
\* ends with its namestr pairs).
CountTexts ==
  { <<" ", " ", " ", " ", "2">>, <<"+", "0", "0", "0", "2">>, <<"2", " ", " ", " ", " ">>,
    <<"0", "0", "0", "0", "1">>, <<"0", "0", "0", "0", "0">>,
    <<"x", "0", "0", "0", "2">>, Blanks5 }
CountFiles ==
  { [SampleFile EXCEPT !.blocks[8].num2 = t] : t \in CountTexts }
  \cup { [SampleFile EXCEPT !.blocks[8].num2 = t, !.len = 640 + 2 * 140] :
           t \in { <<"0", "0", "0", "0", "3">>, <<"9", "9", "9", "9", "9">> } }

\* Streams that end early.
TruncatedFiles ==
  { [SampleFile EXCEPT !.len = n] :
      n \in {0, 79, 80, 200, 240, 399, 480, 639, 640, 700, 779, 920, 999, 1040, 1046, 1052} }

Files ==
  PlainFiles \cup WideFiles \cup OddFiles \cup BadSignatureFiles \cup ShortLibraryFiles
    \cup CountFiles \cup TruncatedFiles

\* The 80-byte block of the stream that starts at offset.
BlockAt(f, offset) ==
  IF offset % 80 = 0 /\ offset < 640 THEN f.blocks[(offset \div 80) + 1]
  ELSE IF offset = ObsOffsetOf(Len(f.namestrs)) THEN f.obs
  ELSE OtherBlock

\* The bytes of the data region at stream offsets offset..offset+n-1.
DataStart(f) == ObsOffsetOf(Len(f.namestrs)) + 80
DataBytes(f, offset, n) ==
  SubSeq(f.data, offset - DataStart(f) + 1, offset - DataStart(f) + n)

\* ------------------------------------------------------------------ state

VARIABLES
  file,         \* the bytes behind mFile (never written)
  cursor,       \* mFile's read position
  failed,       \* mFile's failbit
  pc,           \* where Read_Headers stands, then the state of the session
  status,       \* what Read_Headers returned or threw
  hdr,          \* Read_Headers' hdr, with the stage and offset of its read
  cnt,          \* Read_Headers' cnt
  i,            \* Read_Headers' loop counter
  readCnt,      \* Read_Headers' readCnt
  mVariables,   \* File::mVariables (type, length, varNum, position)
  mRecord_Len,  \* File::mRecord_Len
  target,       \* the caller's vector handed to Read_Next(target)
  caller,       \* how the caller's loop calls Read_Next, once it has begun
  call,         \* the last Read_Next call: arguments, buffer, result
  codecIn,      \* the eight bytes handed to the codec
  codecOut      \* the double it returned

vars == << file, cursor, failed, pc, status, hdr, cnt, i, readCnt, mVariables,
           mRecord_Len, target, caller, call, codecIn, codecOut >>

codecVars == << codecIn, codecOut >>
tableVars == << cnt, i, readCnt, mVariables, mRecord_Len >>

NoCall == [op |-> "none"]
NoCaller == [style |-> "none", slots |-> <<>>]
NoHdr == [stage |-> "none", pos |-> 0, namedesc |-> "", num2 |-> <<>>]

Init ==
  /\ file \in Files
  /\ cursor = 0
  /\ failed = FALSE
  /\ pc = "Library"
  /\ status = "none"
  /\ hdr = NoHdr
  /\ cnt = 0
  /\ i = 0
  /\ readCnt = 0
  /\ mVariables = <<>>
  /\ mRecord_Len = 0
  /\ target = <<>>
  /\ caller = NoCaller
  /\ call = NoCall
  /\ codecIn = <<>>
  /\ codecOut = <<>>

\* ----------------------------------------------------------- block reader

\* mFile.gcount() after mFile.read(.., n): nothing on a failed stream.
Gcount(n) ==
  IF failed \/ cursor >= file.len THEN 0 ELSE Min(n, file.len - cursor)

\* The stream after mFile.read(.., n): a short read sets eofbit and failbit.
CursorAfterRead(n) == IF failed THEN cursor ELSE cursor + Gcount(n)
FailedAfterRead(n) == failed \/ Gcount(n) # n

\* A variant of the step below that reads nothing.
SkipRecord_Missing(T, here, next) ==
  /\ pc = here
  /\ pc' = next
  /\ UNCHANGED << file, cursor, failed, status, hdr, target, caller, call, tableVars, codecVars >>

\* File::Read<T, padded>(), the step of Read_Headers that discards its result.
SkipRecord(T, here, next) ==
  /\ pc = here
  /\ cursor' = CursorAfterRead(Bytes_To_Read(T, TRUE))
  /\ failed' = FailedAfterRead(Bytes_To_Read(T, TRUE))
  /\ IF Gcount(Bytes_To_Read(T, TRUE)) # Bytes_To_Read(T, TRUE)
       THEN pc' = "Thrown" /\ status' = "CEOF_Exception"
       ELSE pc' = next /\ UNCHANGED status
  /\ UNCHANGED << file, hdr, target, caller, call, tableVars, codecVars >>

\* hdr = Read<Data_Header_Generic>() and the check of its signature.
CheckHeader(here, expected, missing, next) ==
  /\ pc = here
  /\ cursor' = CursorAfterRead(Bytes_To_Read("Data_Header_Generic", TRUE))
  /\ failed' = FailedAfterRead(Bytes_To_Read("Data_Header_Generic", TRUE))
  /\ IF Gcount(Bytes_To_Read("Data_Header_Generic", TRUE)) # Bytes_To_Read("Data_Header_Generic", TRUE)
       THEN pc' = "Thrown" /\ status' = "CEOF_Exception" /\ UNCHANGED hdr
       ELSE /\ hdr' = [stage |-> expected, pos |-> cursor,
                       namedesc |-> BlockAt(file, cursor).namedesc,
                       num2 |-> BlockAt(file, cursor).num2]
            /\ IF Recognize_Data_Header(hdr') # expected
                 THEN pc' = "Returned" /\ status' = missing
                 ELSE pc' = next /\ status' = (IF next = "Returned" THEN "Ok" ELSE status)
  /\ UNCHANGED << file, target, caller, call, codecVars >>

ReadLibraryHeader ==
  /\ CheckHeader("Library", "Library", "No_Library_Header", "FileHeader")
  /\ UNCHANGED tableVars

ReadFileHeader == SkipRecord("File_Header_Record", "FileHeader", "CreatedAt")

\* A Read_Headers without the read of the Date_Time_Record.
ReadCreatedAt_Missing == SkipRecord_Missing("Date_Time_Record", "CreatedAt", "Member")

ReadCreatedAt == SkipRecord("Date_Time_Record", "CreatedAt", "Member")

ReadMemberHeader ==
  /\ CheckHeader("Member", "Member", "No_Member_Header", "Descriptor")
  /\ UNCHANGED tableVars

ReadDescriptorHeader ==
  /\ CheckHeader("Descriptor", "Descriptor", "No_Descriptor_Header", "MemberHeader1")
  /\ UNCHANGED tableVars

ReadMemberHeader1 == SkipRecord("Member_Header_Record", "MemberHeader1", "MemberHeader2")

ReadMemberHeader2 == SkipRecord("Member_Header_Record_2", "MemberHeader2", "Namestr")

ReadNamestrHeader ==
  /\ CheckHeader("Namestr", "Namestr", "No_Namestr_Header", "Count")
  /\ UNCHANGED tableVars

\* readCnt = 0; mRecord_Len = 0; cnt = std::stoull(std::string{ hdr.num2, 5 }).
ParseCount ==
  /\ pc = "Count"
  /\ readCnt' = 0
  /\ mRecord_Len' = 0
  /\ i' = 0
  /\ IF Stoull(hdr.num2).ok
       THEN cnt' = Stoull(hdr.num2).value /\ pc' = "Loop" /\ UNCHANGED status
       ELSE pc' = "Thrown" /\ status' = "invalid_argument" /\ UNCHANGED cnt
  /\ UNCHANGED << file, cursor, failed, hdr, mVariables, target, caller, call, codecVars >>

\* The Variable_Record emplaced for a namestr pair.
Variable_Record(n) ==
  [type |-> HostValue(To_Machine_Endian_Raw(n.ntype)),
   length |-> HostValue(To_Machine_Endian_Raw(n.nlng)),
   varNum |-> HostValue(To_Machine_Endian_Raw(n.nvar0)),
   position |-> HostValue(To_Machine_Endian_Raw(n.npos))]

\* One turn of the descriptor loop: the two unpadded reads, the record, the
\* row length.
ReadNamestr ==
  /\ pc = "Loop"
  /\ i < cnt
  /\ LET n1 == Bytes_To_Read("Namestr_Record_1", FALSE)
         n2 == Bytes_To_Read("Namestr_Record_2", FALSE)
         got == Gcount(n1 + n2)
     IN /\ cursor' = CursorAfterRead(n1 + n2)
        /\ failed' = (failed \/ got # n1 + n2)
        /\ IF got # n1 + n2
             THEN /\ pc' = "Thrown"
                  /\ status' = "CEOF_Exception"
                  /\ UNCHANGED << i, readCnt, mVariables, mRecord_Len >>
             ELSE /\ readCnt' = readCnt + SizeOf("Namestr_Record_1") + SizeOf("Namestr_Record_2")
                  /\ mVariables' = Append(mVariables, Variable_Record(file.namestrs[i + 1]))
                  /\ mRecord_Len' = mRecord_Len + Variable_Record(file.namestrs[i + 1]).length
                  /\ i' = i + 1
                  /\ UNCHANGED << pc, status >>
  /\ UNCHANGED << file, hdr, cnt, target, caller, call, codecVars >>

\* A variant that seeks past rest bytes instead of 80 - rest.
PaddingToDiscard_Rest(n) == n % 80

\* The number of bytes Read_Headers seeks past after the descriptor loop.
PaddingToDiscard(n) == IF n % 80 # 0 THEN 80 - (n % 80) ELSE 0

\* rest = readCnt % 80; if (rest != 0) Read_Discard(80 - rest).
DiscardPadding ==
  /\ pc = "Loop"
  /\ i >= cnt
  /\ cursor' = cursor + PaddingToDiscard(readCnt)
  /\ pc' = "Observation"
  /\ UNCHANGED << file, failed, status, hdr, target, caller, call, tableVars, codecVars >>

ReadObservationHeader ==
  /\ CheckHeader("Observation", "Observation", "No_Observation_Header", "Returned")
  /\ UNCHANGED tableVars

\* ------------------------------------------------------------- row decoder

NVar_Type_Numeric == 1
NVar_Type_String == 2

\* std::isspace in the "C" locale.
IsSpace(b) == b \in (9..13) \cup {32}

RECURSIVE TrimRight(_)
TrimRight(s) ==
  IF s # <<>> /\ (IsSpace(s[Len(s)]) \/ s[Len(s)] = 0) THEN TrimRight(SubSeq(s, 1, Len(s) - 1))
  ELSE s

RECURSIVE TrimLeft(_)
TrimLeft(s) == IF s # <<>> /\ IsSpace(Head(s)) THEN TrimLeft(Tail(s)) ELSE s

\* Get_From_Buffer(buf, offset, len): the bytes copied, blanks and NULs
\* erased from the right, then blanks from the left.
Get_From_Buffer_Str(buf, beyond, offset, len) ==
  TrimLeft(TrimRight([k \in 1..len |-> MemByte(buf, beyond, offset + k - 1)]))

\* The alternatives of TValue (std::variant<std::string, double>); a double
\* is held as its bit pattern.
StringValue(text) == [kind |-> "string", text |-> text]
DoubleValue(w) == [kind |-> "double", bits |-> DoubleBytes(w)]
\* std::stod of a text: the double nearest to its decimal prefix (optional
\* sign, digits, optional point and digits), held as that prefix;
\* std::invalid_argument without a digit. (The modelled rows hold no
\* exponent, hexadecimal, inf or nan spelling.)
RECURSIVE DigitRun(_)
DigitRun(s) ==
  IF s # <<>> /\ Head(s) \in 48..57 THEN <<Head(s)>> \o DigitRun(Tail(s)) ELSE <<>>

Stod(text) ==
  LET a == TrimLeft(text)
      sign == IF a # <<>> /\ Head(a) \in {43, 45} THEN <<Head(a)>> ELSE <<>>
      b == SubSeq(a, Len(sign) + 1, Len(a))
      int == DigitRun(b)
      c == SubSeq(b, Len(int) + 1, Len(b))
      frac == IF c # <<>> /\ Head(c) = 46 THEN DigitRun(Tail(c)) ELSE <<>>
  IN IF int = <<>> /\ frac = <<>> THEN [kind |-> "throw"]
     ELSE [kind |-> "double",
           decimal |-> sign \o int \o (IF c # <<>> /\ Head(c) = 46 THEN <<46>> ELSE <<>>) \o frac]
\* std::to_string of a double, held as the double formatted.
To_String(w) == [kind |-> "string", formatted |-> DoubleBytes(w)]

\* What the heap may hold past the end of the row buffer.
GarbageBytes == {0, 32, 255}

\* target.resize(n): new elements are value-initialised (an empty string).
Resize(v, n) == [k \in 1..n |-> IF k <= Len(v) THEN v[k] ELSE StringValue(<<>>)]

\* The loop body of Read_Next(target) for one variable; old is target[i].
DecodeColumn(mvar, buf, beyond, old) ==
  IF mvar.type = NVar_Type_Numeric
    THEN DoubleValue(IbmToIEEE(Get_From_Buffer_U64(buf, beyond, mvar.position)))
  ELSE IF mvar.type = NVar_Type_String
    THEN StringValue(Get_From_Buffer_Str(buf, beyond, mvar.position, mvar.length))
  ELSE old

\* The bytes of the buffer the loop body reads: [lo, hi).
ColumnRange(mvar) ==
  IF mvar.type = NVar_Type_Numeric THEN <<mvar.position, mvar.position + 8>>
  ELSE IF mvar.type = NVar_Type_String THEN <<mvar.position, mvar.position + mvar.length>>
  ELSE <<0, 0>>

\* A range that reads past the end of a buffer of n bytes.
Overruns(range, n) == range[2] > range[1] /\ range[2] > n

\* What a Read_Next call was given and did: what it returned ("true",
\* "false", the exception thrown, or "crash"), the slots passed, the stream
\* offset of the row, the buffer read (and the byte found past its end), the
\* byte ranges taken from it, the elements or slots assigned, the column
\* index used for each slot, and the slots afterwards; turn tells a call
\* from the one before it (0 for the first, then 1, 0, ...).
CallRecord(op, ret, kinds, rowStart, data, beyond, ranges, assigned, cols, args) ==
  [op |-> op, ret |-> ret, kinds |-> kinds, rowStart |-> rowStart, data |-> data,
   beyond |-> beyond, ranges |-> ranges, assigned |-> assigned, cols |-> cols,
   args |-> args, turn |-> IF call.op = "none" THEN 0 ELSE 1 - call.turn]

\* bool Read_Next(std::vector<TValue>& target)
Read_Next_Vector ==
  /\ pc = "Returned"
  /\ status = "Ok"
  /\ caller.style \in {"none", "vector"}
  /\ caller' = [style |-> "vector", slots |-> <<>>]
  /\ cursor' = CursorAfterRead(mRecord_Len)
  /\ failed' = FailedAfterRead(mRecord_Len)
  /\ LET resized == Resize(target, Len(mVariables))
         data == DataBytes(file, cursor, mRecord_Len)
         ranges == [k \in 1..Len(mVariables) |-> ColumnRange(mVariables[k])]
         overrun == \E k \in 1..Len(mVariables) : Overruns(ranges[k], mRecord_Len)
     IN IF Gcount(mRecord_Len) # mRecord_Len
          THEN /\ target' = resized
               /\ call' = CallRecord("vector", "false", <<>>, cursor, <<>>, 0, <<>>, {}, <<>>, <<>>)
               /\ UNCHANGED pc
          ELSE \/ \E beyond \in (IF overrun THEN GarbageBytes ELSE {0}) :
                    /\ target' = [k \in 1..Len(mVariables) |->
                                    DecodeColumn(mVariables[k], data, beyond, resized[k])]
                    /\ call' = CallRecord("vector", "true", <<>>, cursor, data, beyond, ranges,
                                 {k \in 1..Len(mVariables) :
                                    mVariables[k].type \in {NVar_Type_Numeric, NVar_Type_String}},
                                 <<>>, <<>>)
                    /\ UNCHANGED pc
               \/ /\ overrun
                  /\ target' = resized
                  /\ call' = CallRecord("vector", "crash", <<>>, cursor, data, 0, ranges, {}, <<>>, <<>>)
                  /\ pc' = "Crashed"
  /\ UNCHANGED << file, status, hdr, tableVars, codecVars >>

\* File::Fetch_Column_Idx for a slot of the given type ("double" or "string").
Fetch_Column_Idx(buf, beyond, argIdx, slot) ==
  LET mvar == mVariables[argIdx + 1]
  IN IF slot = "double"
       THEN IF mvar.type = NVar_Type_Numeric
              THEN DoubleValue(IbmToIEEE(Get_From_Buffer_U64(buf, beyond, mvar.position)))
              ELSE Stod(Get_From_Buffer_Str(buf, beyond, mvar.position, mvar.length))
       ELSE IF mvar.type = NVar_Type_String
              THEN StringValue(Get_From_Buffer_Str(buf, beyond, mvar.position, mvar.length))
              ELSE To_String(IbmToIEEE(Get_From_Buffer_U64(buf, beyond, mvar.position)))

\* The bytes of the buffer Fetch_Column_Idx reads: [lo, hi).
FetchRange(argIdx, slot) ==
  LET mvar == mVariables[argIdx + 1]
  IN IF (slot = "double") = (mvar.type = NVar_Type_Numeric) /\ slot = "double"
       THEN <<mvar.position, mvar.position + 8>>
     ELSE IF slot = "string" /\ mvar.type # NVar_Type_String
       THEN <<mvar.position, mvar.position + 8>>
     ELSE <<mvar.position, mvar.position + mvar.length>>

\* A variant that counts the columns from the remaining arguments alone.
ColumnIndex_FromRight(origCnt, rest) == rest

\* The column index the variadic Fetch_Column computes for its first
\* argument: origCnt - (sizeof...(Args) + 1), rest being sizeof...(Args).
ColumnIndex(origCnt, rest) == origCnt - (rest + 1)

\* File::Fetch_Column over the remaining slots: the column indices it
\* hands to Fetch_Column_Idx, slot by slot (the one-slot overload ends the
\* recursion with origCnt - 1).
RECURSIVE Fetch_Column(_, _)
Fetch_Column(origCnt, slots) ==
  IF Len(slots) = 1 THEN << origCnt - 1 >>
  ELSE << ColumnIndex(origCnt, Len(slots) - 1) >> \o Fetch_Column(origCnt, Tail(slots))

\* The slots a caller may pass: one to as many as there are columns, each a
\* double or a std::string; a caller's loop passes the same ones every time.
SlotTypes == {"double", "string"}
CallerSlots ==
  IF caller.style = "none"
    THEN UNION { [1..N -> SlotTypes] : N \in 1..Len(mVariables) }
  ELSE IF caller.style = "args" THEN { caller.slots }
  ELSE {}
Unset == [kind |-> "unset"]

\* The first slot whose fetch throws, or 0.
FirstThrow(values) ==
  IF \E j \in 1..Len(values) : values[j].kind = "throw"
    THEN CHOOSE j \in 1..Len(values) :
           values[j].kind = "throw" /\ \A h \in 1..(j - 1) : values[h].kind # "throw"
    ELSE 0

\* template<typename... Args> bool Read_Next(Args&... args)
Read_Next_Args ==
  /\ pc = "Returned"
  /\ status = "Ok"
  /\ cursor' = CursorAfterRead(mRecord_Len)
  /\ failed' = FailedAfterRead(mRecord_Len)
  /\ \E slots \in CallerSlots :
       LET N == Len(slots)
           originalArgCount == N
           data == DataBytes(file, cursor, mRecord_Len)
           cols == Fetch_Column(originalArgCount, slots)
           ranges == [j \in 1..N |-> FetchRange(cols[j], slots[j])]
       IN /\ caller' = [style |-> "args", slots |-> slots]
          /\ IF Gcount(mRecord_Len) # mRecord_Len
               THEN /\ call' = CallRecord("args", "false", slots, cursor, <<>>, 0, <<>>, {}, <<>>,
                                 [j \in 1..N |-> Unset])
                    /\ UNCHANGED pc
               ELSE \E beyond \in (IF \E j \in 1..N : Overruns(ranges[j], mRecord_Len)
                                     THEN GarbageBytes ELSE {0}) :
                    \E values \in { SubSeq([j \in 1..N |->
                                      Fetch_Column_Idx(data, beyond, cols[j], slots[j])], 1, N) } :
                    \E thrown \in { FirstThrow(values) } :
                      LET done == IF thrown = 0 THEN N ELSE thrown - 1
                          reached == IF thrown = 0 THEN N ELSE thrown
                          overrun == \E j \in 1..reached : Overruns(ranges[j], mRecord_Len)
                      IN \/ /\ call' = CallRecord("args",
                                         IF thrown = 0 THEN "true" ELSE "invalid_argument",
                                         slots, cursor, data, beyond,
                                         SubSeq(ranges, 1, reached), 1..done,
                                         SubSeq(cols, 1, reached),
                                         [j \in 1..N |-> IF j <= done THEN values[j] ELSE Unset])
                            /\ UNCHANGED pc
                         \/ /\ overrun
                            /\ beyond = 0
                            /\ call' = CallRecord("args", "crash", slots, cursor, data, 0,
                                         SubSeq(ranges, 1, reached), {},
                                         SubSeq(cols, 1, reached),
                                         [j \in 1..N |-> Unset])
                            /\ pc' = "Crashed"
  /\ UNCHANGED << file, status, hdr, tableVars, target, codecVars >>

Next ==
  \/ ReadLibraryHeader
  \/ ReadFileHeader
  \/ ReadCreatedAt
  \/ ReadMemberHeader
  \/ ReadDescriptorHeader
  \/ ReadMemberHeader1
  \/ ReadMemberHeader2
  \/ ReadNamestrHeader
  \/ ParseCount
  \/ ReadNamestr
  \/ DiscardPadding
  \/ ReadObservationHeader
  \/ Read_Next_Vector
  \/ Read_Next_Args

Spec == Init /\ [][Next]_vars

\* ------------------------------------------------------ the codec on its own
\* IbmToIEEE applied to eight bytes as they stand in a row buffer.

CodecExponents == {0, 1, 63, 64, 65, 66, 127}
\* The low nibble of the second byte and the six bytes after it.
CodecTails ==
  { <<0, 0, 0, 0, 0, 0, 0>>, <<15, 255, 255, 255, 255, 255, 255>>,
    <<0, 0, 0, 0, 0, 0, 1>>, <<8, 0, 0, 0, 0, 0, 7>>,
    <<5, 170, 85, 170, 85, 170, 85>>, <<4, 128, 0, 0, 0, 0, 0>> }
CodecInputs ==
  { <<128 * sg + e, 16 * nib + t[1]>> \o Tail(t) :
      sg \in {0, 1}, e \in CodecExponents, nib \in 0..15, t \in CodecTails }

CodecInit ==
  /\ file = SampleFile
  /\ cursor = 0
  /\ failed = FALSE
  /\ pc = "Codec"
  /\ status = "none"
  /\ hdr = NoHdr
  /\ cnt = 0
  /\ i = 0
  /\ readCnt = 0
  /\ mVariables = <<>>
  /\ mRecord_Len = 0
  /\ target = <<>>
  /\ caller = NoCaller
  /\ call = NoCall
  /\ codecIn \in CodecInputs
  /\ codecOut = <<>>

\* num_raw = Get_From_Buffer<uint64_t>(data, 0); IbmToIEEE(num_raw)
Convert ==
  /\ pc = "Codec"
  /\ codecOut = <<>>
  /\ codecOut' = DoubleBytes(IbmToIEEE(Get_From_Buffer_U64(codecIn, 0, 0)))
  /\ UNCHANGED << file, cursor, failed, pc, status, hdr, tableVars, target, caller, call, codecIn >>

CodecNext == Convert

SpecCodec == CodecInit /\ [][CodecNext]_vars

\* ----------------------------------------------------- a caller that goes on
\* The steps of Read_Headers, which runs to its end once called.
HeaderStep ==
  \/ ReadLibraryHeader
  \/ ReadFileHeader
  \/ ReadCreatedAt
  \/ ReadMemberHeader
  \/ ReadDescriptorHeader
  \/ ReadMemberHeader1
  \/ ReadMemberHeader2
  \/ ReadNamestrHeader
  \/ ParseCount
  \/ ReadNamestr
  \/ DiscardPadding
  \/ ReadObservationHeader

\* A caller that has the status Ok and has not crashed can call Read_Next.
CanCall == pc = "Returned" /\ status = "Ok"

\* The caller calls Read_Next again and again for as long as it can: calls
\* with turn 0 and calls with turn 1 both keep coming.
CallerGoesOn ==
  \/ []<>(~CanCall)
  \/ /\ []<>(call.op # "none" /\ call.turn = 0)
     /\ []<>(call.op # "none" /\ call.turn = 1)

SpecLive == Init /\ [][Next]_vars /\ WF_vars(HeaderStep) /\ CallerGoesOn

\* ---------------------------------------------------------------- properties

\* C1: at each of the five header stages (Library, Member, Descriptor,
\* Namestr, Observation), a block whose 21-byte signature field differs from
\* the signature expected there makes Read_Headers return that stage's status
\* (No_Library_Header, No_Member_Header, No_Descriptor_Header,
\* No_Namestr_Header, No_Observation_Header) and read nothing more: the
\* cursor stays at the end of the mismatching block.
C1_MismatchReturnsStageStatus ==
  LET Expected == [Library |-> Header_Signature_Library,
                   Member |-> Header_Signature_Member,
                   Descriptor |-> Header_Signature_Descriptor,
                   Namestr |-> Header_Signature_Namestr,
                   Observation |-> Header_Signature_Observation]
      Missing == [Library |-> "No_Library_Header",
                  Member |-> "No_Member_Header",
                  Descriptor |-> "No_Descriptor_Header",
                  Namestr |-> "No_Namestr_Header",
                  Observation |-> "No_Observation_Header"]
  IN \A stage \in DOMAIN Expected :
       (hdr.stage = stage /\ hdr.namedesc # Expected[stage]) =>
         /\ pc = "Returned"
         /\ status = Missing[stage]
         /\ cursor = hdr.pos + 80
         /\ call = NoCall

\* C1 (witness): the block read at the Observation stage, after a table of
\* one descriptor, carries another signature and Read_Headers has returned.
C1_ObservationMismatchSeen ==
  /\ hdr.stage = "Observation"
  /\ hdr.namedesc # Header_Signature_Observation
  /\ cnt = 1
  /\ pc = "Returned"
  /\ status = "No_Observation_Header"

\* C2: on a stream that holds nrows complete rows followed by the blanks that
\* pad the data region to an 80-byte boundary, after Read_Headers returned Ok,
\* a Read_Next call returns true exactly when the row it read is one of the
\* nrows rows: the first nrows calls return true, the next returns false, and
\* no row is built from the padding.
C2_FalseAfterLastRow ==
  (/\ status = "Ok"
   /\ call.op # "none"
   /\ call.ret \in {"true", "false"}
   /\ mRecord_Len > 0
   /\ file.len = DataStart(file) + Len(file.data))
  => (call.ret = "true" <=>
        call.rowStart + mRecord_Len <= DataStart(file) + file.nrows * mRecord_Len)

\* C3: IbmToIEEE of the eight zero bytes is the double 0.0, whose bit pattern
\* is eight zero bytes.
C3_ZeroIsZero ==
  (codecIn = <<0, 0, 0, 0, 0, 0, 0, 0>> /\ codecOut # <<>>)
  => codecOut = <<0, 0, 0, 0, 0, 0, 0, 0>>

\* C4: for an IBM double with sign s, exponent e and a mantissa whose top
\* nibble is not zero (lz leading zero bits in it), IbmToIEEE returns sign s,
\* biased exponent 4 * (e - 64) - 1 - lz + 1023, and as fraction the 52
\* mantissa bits after the leading 1; the IBM 1.0 (0x4110000000000000) gives
\* 0x3FF0000000000000 and the IBM 100.5 (0x4264800000000000) gives
\* 0x4059200000000000.
C4_IbmToIEEE_Normalised ==
  (codecOut # <<>> /\ codecIn[2] >= 16) =>
    LET s == codecIn[1] \div 128
        e == codecIn[1] % 128
        nibble == codecIn[2] \div 16
        lz == IF nibble >= 8 THEN 0 ELSE IF nibble >= 4 THEN 1 ELSE IF nibble >= 2 THEN 2 ELSE 3
        biased == 4 * (e - 64) - 1 - lz + 1023
        \* bit k of the mantissa, 1 the most significant of its 56
        MantissaBit(k) == (codecIn[2 + ((k - 1) \div 8)] \div Pow2(7 - ((k - 1) % 8))) % 2
        \* bit k of the double, 1 the sign, 2..12 the exponent, 13..64 the fraction
        DoubleBit(k) == IF k = 1 THEN s
                        ELSE IF k <= 12 THEN (biased \div Pow2(12 - k)) % 2
                        ELSE MantissaBit(lz + k - 11)
        ExpectedByte(b) ==
          128 * DoubleBit(8 * b - 7) + 64 * DoubleBit(8 * b - 6) + 32 * DoubleBit(8 * b - 5)
          + 16 * DoubleBit(8 * b - 4) + 8 * DoubleBit(8 * b - 3) + 4 * DoubleBit(8 * b - 2)
          + 2 * DoubleBit(8 * b - 1) + DoubleBit(8 * b)
    IN /\ \A b \in 1..8 : codecOut[b] = ExpectedByte(b)
       /\ codecIn = <<65, 16, 0, 0, 0, 0, 0, 0>> => codecOut = <<63, 240, 0, 0, 0, 0, 0, 0>>
       /\ codecIn = <<66, 100, 128, 0, 0, 0, 0, 0>> => codecOut = <<64, 89, 32, 0, 0, 0, 0, 0>>

\* C4 (witness): the IBM encoding of 100.5 has been converted.
C4_Converted100_5 ==
  /\ codecIn = <<66, 100, 128, 0, 0, 0, 0, 0>>
  /\ codecOut = <<64, 89, 32, 0, 0, 0, 0, 0>>

\* C5: whenever Read_Next(target) returns true, target holds one value per
\* descriptor in table order, each assigned by this call from the row buffer
\* just read: the codec of the 8 bytes at the offset for a Numeric
\* descriptor, the trimmed bytes for a String descriptor; none carries over
\* from before the call.
C5_EveryElementDecoded ==
  (call.op = "vector" /\ call.ret = "true") =>
    /\ Len(target) = Len(mVariables)
    /\ \A k \in 1..Len(mVariables) :
         /\ k \in call.assigned
         /\ mVariables[k].type = NVar_Type_Numeric =>
              target[k] = DoubleValue(IbmToIEEE(
                            Get_From_Buffer_U64(call.data, call.beyond, mVariables[k].position)))
         /\ mVariables[k].type = NVar_Type_String =>
              target[k] = StringValue(Get_From_Buffer_Str(call.data, call.beyond,
                                        mVariables[k].position, mVariables[k].length))

\* C6: a call Read_Next(a_0, ..., a_{N-1}) with 1 <= N <= number of columns
\* that returns true has assigned every slot j < N from column j, left to
\* right and from no column of index N or more, and has consumed exactly
\* mRecord_Len bytes, so the next call reads the next row.
C6_SlotsLeftToRight ==
  (call.op = "args" /\ call.ret = "true") =>
    LET N == Len(call.kinds)
    IN /\ N \in 1..Len(mVariables)
       /\ call.assigned = 1..N
       /\ Len(call.cols) = N
       /\ \A j \in 1..N :
            /\ call.cols[j] = j - 1
            /\ call.args[j] =
                 Fetch_Column_Idx(call.data, call.beyond, j - 1, call.kinds[j])
       /\ cursor = call.rowStart + mRecord_Len

\* C6 (witness): a call with one slot on a table of two columns has returned
\* true for a row after the first.
C6_OneSlotOfTwoColumns ==
  /\ call.op = "args"
  /\ call.ret = "true"
  /\ Len(call.kinds) = 1
  /\ Len(mVariables) = 2
  /\ mRecord_Len > 0
  /\ call.rowStart = DataStart(file) + mRecord_Len

\* C7: after cnt descriptor pairs of 140 bytes, Read_Headers discards
\* (80 - (140 * cnt mod 80)) mod 80 bytes, so the block checked against the
\* Observation signature starts at 640 + 140 * cnt plus that padding, a
\* multiple of 80.
C7_ObservationBlockAligned ==
  LET padding == (80 - ((140 * cnt) % 80)) % 80
      start == 640 + 140 * cnt + padding
  IN /\ pc = "Observation" => (cursor = start /\ cursor % 80 = 0)
     /\ hdr.stage = "Observation" => (hdr.pos = start /\ hdr.pos % 80 = 0)

\* C7 (witness): the Observation block was read after one descriptor pair,
\* 20 bytes of padding having been discarded.
C7_OnePairThenObservation ==
  /\ hdr.stage = "Observation"
  /\ cnt = 1
  /\ readCnt = 140
  /\ hdr.pos = 800

\* C8: once Read_Headers has returned Ok, every descriptor of the table has
\* position + length <= mRecord_Len.
C8_DescriptorsWithinRecord ==
  status = "Ok" =>
    \A k \in 1..Len(mVariables) :
      mVariables[k].position + mVariables[k].length <= mRecord_Len

\* C9 (as stated): exactly one 80-byte sub-record is read between the Library
\* block and the block checked against the Member signature, which is the
\* third block of the stream, at byte offset 160.
C9_MemberAtThirdBlock ==
  hdr.stage = "Member" => hdr.pos = 160

\* C9 (amended): two 80-byte sub-records (File_Header_Record, then
\* Date_Time_Record) are read and discarded between the Library block and
\* the block checked against the Member signature, which is the fourth block
\* of the stream, at byte offset 240.
C9_MemberAtFourthBlock ==
  /\ pc = "FileHeader" => (hdr.stage = "Library" /\ hdr.pos = 0 /\ cursor = 80)
  /\ pc = "CreatedAt" => (hdr.stage = "Library" /\ cursor = 160)
  /\ pc = "Member" => (hdr.stage = "Library" /\ cursor = 240)
  /\ hdr.stage = "Member" => hdr.pos = 240

\* C9 (witness): the Member signature was found in the block at offset 240.
C9_MemberBlockRead ==
  /\ hdr.stage = "Member"
  /\ hdr.namedesc = Header_Signature_Member
  /\ hdr.pos = 240
  /\ pc = "Descriptor"

\* C10: in every call of either Read_Next overload that read a full row,
\* every byte range taken from the buffer lies within [0, mRecord_Len): 8
\* bytes from the position for a Numeric column whatever its length, length
\* bytes from the position for a String column.
C10_RangesWithinBuffer ==
  (call.op # "none" /\ call.ret # "false") =>
    \A k \in 1..Len(call.ranges) :
      LET range == call.ranges[k]
      IN range[2] > range[1] => (0 <= range[1] /\ range[2] <= mRecord_Len)

\* C11: on every stream for which Read_Headers returned Ok (a count of 0 or
\* lengths that sum to 0 included), a caller that keeps calling Read_Next
\* eventually gets false, unless the process died first reading outside the
\* row buffer; and a call after one that returned false returns false too.
C11_EventuallyFalse ==
  /\ (status = "Ok") ~> ((call.op # "none" /\ call.ret = "false") \/ pc = "Crashed")
  /\ [][(call.op # "none" /\ call.ret = "false") => call'.ret = "false"]_vars

====
